---- MODULE Spec2Model ----
(***************************************************************************)
(* dbt-meshify: the YAML editors of dbt_meshify/storage/yaml_editors.py    *)
(* and the subproject creator of dbt_meshify/storage/dbt_project_creator.py*)
(*                                                                         *)
(* A Python dict is a record [keys, val]: keys is the insertion order and  *)
(* val maps the keys whose value is not None to that value; a key that is  *)
(* in keys and not in DOMAIN val holds None.                               *)
(***************************************************************************)
EXTENDS Integers, Sequences, FiniteSets, TLC

\* ------------------------------------------------------------------ bounds
MaxOps == 3
MaxCatalogLen == 2
MaxSelected == 4

\* ----------------------------------------------------------------- helpers
Range(s) == {s[i] : i \in 1..Len(s)}

\* str.lower() on the strings the model uses
Lower(s) ==
  CASE s = "ID" -> "id"
    [] s = "Amt" -> "amt"
    [] s = "INTEGER" -> "integer"
    [] s = "Numeric" -> "numeric"
    [] OTHER -> s

EmptyDict == [keys |-> <<>>, val |-> <<>>]

HasKey(d, k) == k \in Range(d.keys)

\* d.get(k) is not None
HasValue(d, k) == k \in DOMAIN d.val

\* d[k] = v, for v that is not None
DictSet(d, k, v) ==
  [keys |-> IF HasKey(d, k) THEN d.keys ELSE Append(d.keys, k),
   val  |-> [x \in (DOMAIN d.val) \cup {k} |-> IF x = k THEN v ELSE d.val[x]]]

\* ------------------------------------------------------ process_model_yml
CanonicalOrder ==
  <<"name", "description", "latest_version", "access", "config", "meta",
    "columns", "versions">>

\* OrderedDict.fromkeys(canonical); update(model_yml); drop the None values
process_model_yml(model_yml) ==
  LET ordered == CanonicalOrder \o
                   SelectSeq(model_yml.keys, LAMBDA k : k \notin Range(CanonicalOrder))
  IN  [keys |-> SelectSeq(ordered, LAMBDA k : k \in DOMAIN model_yml.val),
       val  |-> model_yml.val]

\* ------------------------------------------------- the models of a document
\* a document (full_yml_dict) is a function from its top-level keys
EmptyDoc == [k \in {} |-> <<>>]

\* {model["name"]: model for model in full_yml_dict["models"]}, as the list of
\* its values: the position of a name is that of its first entry, its value
\* that of its last
ModelsByName(list) ==
  LET first(i) == \A j \in 1..(i - 1) : list[j].val["name"] # list[i].val["name"]
      lastOf(n) == CHOOSE j \in 1..Len(list) :
                     /\ list[j].val["name"] = n
                     /\ \A k \in (j + 1)..Len(list) : list[k].val["name"] # n
      idx == SelectSeq([i \in 1..Len(list) |-> i], first)
  IN  [i \in 1..Len(idx) |-> list[lastOf(list[idx[i]].val["name"])]]

\* `... if full_yml_dict else {}` raises KeyError on a non-empty document
\* that has no "models" key
ModelsKeyError(full_yml_dict) ==
  DOMAIN full_yml_dict # {} /\ "models" \notin DOMAIN full_yml_dict

ModelsOf(full_yml_dict) ==
  IF DOMAIN full_yml_dict = {} THEN <<>> ELSE ModelsByName(full_yml_dict["models"])

HasModel(models, model_name) ==
  \E i \in 1..Len(models) : models[i].val["name"] = model_name

GetModel(models, model_name) ==
  models[CHOOSE i \in 1..Len(models) : models[i].val["name"] = model_name]

PutModel_ProcessesAll(full_yml_dict, models, model_name, processed) ==
  LET list == IF HasModel(models, model_name)
              THEN [i \in 1..Len(models) |->
                      IF models[i].val["name"] = model_name
                      THEN processed ELSE process_model_yml(models[i])]
              ELSE Append([i \in 1..Len(models) |-> process_model_yml(models[i])],
                          processed)
  IN  [k \in (DOMAIN full_yml_dict) \cup {"models"} |->
         IF k = "models" THEN list ELSE full_yml_dict[k]]

\* models[model_name] = processed; full_yml_dict["models"] = list(models.values())
PutModel(full_yml_dict, models, model_name, processed) ==
  LET list == IF HasModel(models, model_name)
              THEN [i \in 1..Len(models) |->
                      IF models[i].val["name"] = model_name THEN processed ELSE models[i]]
              ELSE Append(models, processed)
  IN  [k \in (DOMAIN full_yml_dict) \cup {"models"} |->
         IF k = "models" THEN list ELSE full_yml_dict[k]]

Ok(d) == [status |-> "ok", doc |-> d]

Raise(e, d) == [status |-> e, doc |-> d]

\* ------------------------------------- add_group_and_access_to_model_yml
add_group_and_access_to_model_yml(model_name, group, access_type, full_yml_dict) ==
  IF ModelsKeyError(full_yml_dict) THEN Raise("KeyError", full_yml_dict)
  ELSE
    LET models == ModelsOf(full_yml_dict)
        model_yml == IF HasModel(models, model_name)
                     THEN GetModel(models, model_name)
                     ELSE [keys |-> <<"name", "columns", "config">>,
                           val  |-> [name |-> model_name, columns |-> <<>>,
                                     config |-> EmptyDict]]
        withAccess == DictSet(model_yml, "access", access_type)
    IN  IF HasKey(withAccess, "config") /\ ~HasValue(withAccess, "config")
        THEN Raise("AttributeError", full_yml_dict)
        ELSE
          LET config == IF HasKey(withAccess, "config")
                        THEN withAccess.val["config"] ELSE EmptyDict
              updated == DictSet(withAccess, "config", DictSet(config, "group", group))
          IN  Ok(PutModel(full_yml_dict, models, model_name, process_model_yml(updated)))

\* ---------------------------------------------- add_model_contract_to_yml
\* a catalog is the sequence of the items of model_catalog.columns
CatalogHas(catalog_cols, n) == \E j \in 1..Len(catalog_cols) : catalog_cols[j].name = n

CatalogGet(catalog_cols, n) ==
  catalog_cols[CHOOSE j \in 1..Len(catalog_cols) : catalog_cols[j].name = n]

\* {**yml_col, "data_type": t}
WithDataType(yml_col, t) ==
  [k \in (DOMAIN yml_col) \cup {"data_type"} |->
     IF k = "data_type" THEN t ELSE yml_col[k]]

ContractConfig == DictSet(EmptyDict, "contract", [enforced |-> TRUE])

add_model_contract_to_yml_ExactNames(model_name, catalog_cols, full_yml_dict) ==
  IF ModelsKeyError(full_yml_dict) THEN Raise("KeyError", full_yml_dict)
  ELSE
    LET models == ModelsOf(full_yml_dict)
        model_yml == IF HasModel(models, model_name)
                     THEN GetModel(models, model_name)
                     ELSE [keys |-> <<"name", "columns", "config">>,
                           val  |-> [name |-> model_name, columns |-> <<>>,
                                     config |-> EmptyDict]]
    IN  IF HasKey(model_yml, "columns") /\ ~HasValue(model_yml, "columns")
        THEN Raise("TypeError", full_yml_dict)
        ELSE
          LET declared == IF HasKey(model_yml, "columns")
                          THEN model_yml.val["columns"] ELSE <<>>
          IN  IF \E i \in 1..Len(declared) : ~CatalogHas(catalog_cols, declared[i]["name"])
              THEN Raise("AttributeError", full_yml_dict)
              ELSE
                LET yml_cols == [i \in 1..Len(declared) |->
                                   WithDataType(declared[i],
                                     Lower(CatalogGet(catalog_cols, declared[i]["name"]).type))]
                    yml_col_names == {yml_cols[i]["name"] : i \in 1..Len(yml_cols)}
                    missing == SelectSeq(catalog_cols,
                                 LAMBDA c : c.name \notin yml_col_names)
                    appended == [i \in 1..Len(missing) |->
                                   [name |-> Lower(missing[i].name),
                                    data_type |-> Lower(missing[i].type)]]
                    withCols == DictSet(model_yml, "columns", yml_cols \o appended)
                    withContract == DictSet(withCols, "config", ContractConfig)
                IN  Ok(PutModel(full_yml_dict, models, model_name,
                                process_model_yml(withContract)))

add_model_contract_to_yml(model_name, catalog_cols, full_yml_dict) ==
  IF ModelsKeyError(full_yml_dict) THEN Raise("KeyError", full_yml_dict)
  ELSE
    LET models == ModelsOf(full_yml_dict)
        model_yml == IF HasModel(models, model_name)
                     THEN GetModel(models, model_name)
                     ELSE [keys |-> <<"name", "columns", "config">>,
                           val  |-> [name |-> model_name, columns |-> <<>>,
                                     config |-> EmptyDict]]
    IN  \* yml_cols = model_yml.get("columns", []): iterating None raises
        IF HasKey(model_yml, "columns") /\ ~HasValue(model_yml, "columns")
        THEN Raise("TypeError", full_yml_dict)
        ELSE
          LET declared == IF HasKey(model_yml, "columns")
                          THEN model_yml.val["columns"] ELSE <<>>
          IN  \* catalog_cols.get(name) is None for a name the catalog lacks,
              \* and None.type raises
              IF \E i \in 1..Len(declared) : ~CatalogHas(catalog_cols, declared[i]["name"])
              THEN Raise("AttributeError", full_yml_dict)
              ELSE
                LET yml_cols == [i \in 1..Len(declared) |->
                                   WithDataType(declared[i],
                                     Lower(CatalogGet(catalog_cols, declared[i]["name"]).type))]
                    yml_col_names == {Lower(yml_cols[i]["name"]) : i \in 1..Len(yml_cols)}
                    missing == SelectSeq(catalog_cols,
                                 LAMBDA c : Lower(c.name) \notin yml_col_names)
                    appended == [i \in 1..Len(missing) |->
                                   [name |-> Lower(missing[i].name),
                                    data_type |-> Lower(missing[i].type)]]
                    withCols == DictSet(model_yml, "columns", yml_cols \o appended)
                    withContract == DictSet(withCols, "config", ContractConfig)
                IN  Ok(PutModel(full_yml_dict, models, model_name,
                                process_model_yml(withContract)))

\* ----------------------------------------------- add_model_version_to_yml
\* defined_in = "" stands for None
VersionDict(v, defined_in) ==
  IF defined_in # "" THEN [v |-> v, defined_in |-> defined_in] ELSE [v |-> v]

add_model_version_to_yml_PrereleaseBumps(model_name, full_yml_dict, prerelease, defined_in) ==
  IF ModelsKeyError(full_yml_dict) THEN Raise("KeyError", full_yml_dict)
  ELSE
    LET models == ModelsOf(full_yml_dict)
        model_yml == IF HasModel(models, model_name)
                     THEN GetModel(models, model_name)
                     ELSE [keys |-> <<"name", "latest_version", "versions">>,
                           val  |-> [name |-> model_name, latest_version |-> 0,
                                     versions |-> <<>>]]
        versions_list == IF HasValue(model_yml, "versions")
                         THEN model_yml.val["versions"] ELSE <<>>
        latest_version == IF HasValue(model_yml, "latest_version")
                          THEN model_yml.val["latest_version"] ELSE 0
        v == IF versions_list = <<>> THEN 1 ELSE latest_version + 1
        withVersions == DictSet(model_yml, "versions",
                                Append(versions_list, VersionDict(v, defined_in)))
        withLatest == DictSet(withVersions, "latest_version", latest_version + 1)
    IN  Ok(PutModel(full_yml_dict, models, model_name, process_model_yml(withLatest)))

add_model_version_to_yml(model_name, full_yml_dict, prerelease, defined_in) ==
  IF ModelsKeyError(full_yml_dict) THEN Raise("KeyError", full_yml_dict)
  ELSE
    LET models == ModelsOf(full_yml_dict)
        model_yml == IF HasModel(models, model_name)
                     THEN GetModel(models, model_name)
                     ELSE [keys |-> <<"name", "latest_version", "versions">>,
                           val  |-> [name |-> model_name, latest_version |-> 0,
                                     versions |-> <<>>]]
        \* model_yml.get("versions") or []
        versions_list == IF HasValue(model_yml, "versions")
                         THEN model_yml.val["versions"] ELSE <<>>
        \* model_yml.get("latest_version") or 0
        latest_version == IF HasValue(model_yml, "latest_version")
                          THEN model_yml.val["latest_version"] ELSE 0
        v == IF versions_list = <<>> THEN 1 ELSE latest_version + 1
        new_latest == IF versions_list = <<>> THEN latest_version + 1
                      ELSE IF prerelease THEN latest_version
                      ELSE latest_version + 1
        withVersions == DictSet(model_yml, "versions",
                                Append(versions_list, VersionDict(v, defined_in)))
        withLatest == DictSet(withVersions, "latest_version", new_latest)
    IN  Ok(PutModel(full_yml_dict, models, model_name, process_model_yml(withLatest)))

\* ------------------------------------------------------- add_group_to_yml
\* owner.update({k: v for k, v in other.items() if v is not None})
RECURSIVE UpdateFrom(_, _, _)
UpdateFrom(owner, other, ks) ==
  IF ks = <<>> THEN owner
  ELSE UpdateFrom(IF Head(ks) \in DOMAIN other.val
                  THEN DictSet(owner, Head(ks), other.val[Head(ks)])
                  ELSE owner,
                  other, Tail(ks))

UpdateNonNull(owner, other) == UpdateFrom(owner, other, other.keys)

\* a group is [name, owner], owner standing for group.owner.to_dict()
add_group_to_yml_ReplacesOwner(group, full_yml_dict) ==
  LET group_list == IF "groups" \in DOMAIN full_yml_dict
                    THEN full_yml_dict["groups"] ELSE <<>>
      groups == ModelsByName(group_list)
      group_yml == IF HasModel(groups, group.name)
                   THEN GetModel(groups, group.name) ELSE EmptyDict
      named == DictSet(group_yml, "name", group.name)
  IN  IF HasKey(named, "owner") /\ ~HasValue(named, "owner")
      THEN Raise("AttributeError", full_yml_dict)
      ELSE
        LET owner == EmptyDict
            merged == DictSet(named, "owner", UpdateNonNull(owner, group.owner))
            kept == [keys |-> SelectSeq(merged.keys, LAMBDA k : k \in DOMAIN merged.val),
                     val  |-> merged.val]
            list == IF HasModel(groups, group.name)
                    THEN [i \in 1..Len(groups) |->
                            IF groups[i].val["name"] = group.name THEN kept ELSE groups[i]]
                    ELSE Append(groups, kept)
        IN  Ok([k \in (DOMAIN full_yml_dict) \cup {"groups"} |->
                  IF k = "groups" THEN list ELSE full_yml_dict[k]])

add_group_to_yml(group, full_yml_dict) ==
  \* full_yml_dict.get("groups", []) or []
  LET group_list == IF "groups" \in DOMAIN full_yml_dict
                    THEN full_yml_dict["groups"] ELSE <<>>
      groups == ModelsByName(group_list)
      group_yml == IF HasModel(groups, group.name)
                   THEN GetModel(groups, group.name) ELSE EmptyDict
      named == DictSet(group_yml, "name", group.name)
  IN  IF HasKey(named, "owner") /\ ~HasValue(named, "owner")
      THEN Raise("AttributeError", full_yml_dict)
      ELSE
        LET owner == IF HasKey(named, "owner") THEN named.val["owner"] ELSE EmptyDict
            merged == DictSet(named, "owner", UpdateNonNull(owner, group.owner))
            kept == [keys |-> SelectSeq(merged.keys, LAMBDA k : k \in DOMAIN merged.val),
                     val  |-> merged.val]
            list == IF HasModel(groups, group.name)
                    THEN [i \in 1..Len(groups) |->
                            IF groups[i].val["name"] = group.name THEN kept ELSE groups[i]]
                    ELSE Append(groups, kept)
        IN  Ok([k \in (DOMAIN full_yml_dict) \cup {"groups"} |->
                  IF k = "groups" THEN list ELSE full_yml_dict[k]])

\* ======================================================= the subproject
\* a unique_id is the sequence of its dot-separated segments; a path is the
\* sequence of its parts, absolute when it starts with "/"
ParentProjectName == "p"

SubprojectName == "sub"

Raw == <<"source", "p", "raw", "events">>

Events == <<"model", "p", "events">>

Stg == <<"model", "p", "stg">>

Orders == <<"model", "p", "orders">>

Customers == <<"model", "p", "customers">>

GenericTest == <<"test", "p", "not_null_orders_id", "a1b2c3">>

SingularTest == <<"test", "p", "assert_orders">>

Cents == <<"macro", "p", "cents">>

Dash == <<"exposure", "p", "dash">>

Ext == <<"model", "pkg", "ext">>

\* an identifier the manifest does not hold
Ghost == <<"model", "p", "ghost">>

NoPath == <<>>

Node(resource_type, name, original_file_path, patch_path, depends_on) ==
  [resource_type |-> resource_type, name |-> name,
   original_file_path |-> original_file_path, patch_path |-> patch_path,
   depends_on |-> depends_on]

\* subproject.manifest: stg -> orders -> customers, as in the split project
ManifestOrder ==
  <<Raw, Events, Stg, Orders, Customers, GenericTest, SingularTest, Cents, Dash, Ext>>

ManifestIds == Range(ManifestOrder)

Manifest ==
  [id \in ManifestIds |->
     CASE id = Raw -> Node("source", "events", NoPath, <<"models", "sources.yml">>, {})
       [] id = Events -> Node("model", "events", <<"models", "events.sql">>,
                              <<"models", "events.yml">>, {Raw})
       [] id = Stg -> Node("model", "stg", <<"models", "stg.sql">>,
                           <<"models", "schema.yml">>, {Raw})
       [] id = Orders -> Node("model", "orders", <<"models", "orders.sql">>,
                              <<"models", "schema.yml">>, {Stg})
       [] id = Customers -> Node("model", "customers", <<"models", "customers.sql">>,
                                 <<"models", "schema.yml">>, {Orders, Ext})
       \* a generic test is defined in the document of its model
       [] id = GenericTest -> Node("test", "not_null_orders_id", <<"models", "schema.yml">>,
                                   NoPath, {Orders})
       [] id = SingularTest -> Node("test", "assert_orders", <<"tests", "assert_orders.sql">>,
                                    <<"tests", "tests.yml">>, {Orders})
       [] id = Cents -> Node("macro", "cents", <<"macros", "cents.sql">>, NoPath, {})
       [] id = Dash -> Node("exposure", "dash", NoPath, <<"models", "sources.yml">>,
                            {Customers})
       [] id = Ext -> Node("model", "ext", <<"pkg", "ext.sql">>, <<"pkg", "schema.yml">>, {})]

\* subproject.graph.graph: an edge u -> v for every v that depends on u
Graph == {<<u, v>> \in ManifestIds \X ManifestIds : u \in Manifest[v].depends_on}

\* pathlib: a / b
Join(a, b) == IF b # <<>> /\ b[1] = "/" THEN b ELSE a \o b

\* ResourceGrouper.identify_interface: for every edge with exactly one endpoint
\* in the bunch, the endpoint inside the bunch
identify_interface(graph, selected_bunch) ==
  {u \in selected_bunch : \E e \in graph : e[1] = u /\ e[2] \notin selected_bunch}
    \cup
  {v \in selected_bunch : \E e \in graph : e[2] = v /\ e[1] \notin selected_bunch}

_get_subproject_boundary_models(subproject_resources) ==
  LET nodes == {x \in subproject_resources : x[1] # "source"}
      interface == identify_interface(Graph, nodes)
  IN  {x \in interface : x[1] = "model" /\ x[2] = ParentProjectName}

\* ------------------------------------------------------ the project tree
FsWrite(f, path, contents) ==
  [q \in (DOMAIN f) \cup {path} |-> IF q = path THEN contents ELSE f[q]]

FsDelete(f, path) == [q \in (DOMAIN f) \ {path} |-> f[q]]

\* a declaration entry of the parent project, before any stamping
Entry(id) == [id |-> id, contract |-> FALSE, access |-> "protected"]

CodeFile(id) == [owner |-> id, rewritten |-> {}]

EntriesAt(patch_path) ==
  SelectSeq(ManifestOrder, LAMBDA id : Manifest[id].patch_path = patch_path)

PatchPaths == {Manifest[id].patch_path : id \in ManifestIds} \ {NoPath}

CodeIds == {id \in ManifestIds : Manifest[id].original_file_path # NoPath}

\* the parent project on disk
ParentTree(root) ==
  [q \in {Join(root, pp) : pp \in PatchPaths}
         \cup {Join(root, Manifest[id].original_file_path) : id \in CodeIds}
         \cup {Join(root, <<"packages.yml">>)} |->
     IF \E pp \in PatchPaths : q = Join(root, pp)
     THEN LET pp == CHOOSE x \in PatchPaths : q = Join(root, x)
          IN  [i \in 1..Len(EntriesAt(pp)) |-> Entry(EntriesAt(pp)[i])]
     ELSE IF \E id \in CodeIds : q = Join(root, Manifest[id].original_file_path)
     THEN CodeFile(CHOOSE id \in CodeIds : q = Join(root, Manifest[id].original_file_path))
     ELSE [packages |-> "lock"]]

\* DbtMeshConstructor.get_yml_entry: the entry of the resource and the rest
get_yml_entry(id, full_yml) ==
  [resource_entry |-> SelectSeq(full_yml, LAMBDA e : e.id = id),
   remainder |-> SelectSeq(full_yml, LAMBDA e : e.id # id)]

\* DbtMeshConstructor.add_entry_to_yml: existing_yml is <<>> for None
add_entry_to_yml(resource_entry, existing_yml) == existing_yml \o resource_entry

\* the edit of one entry of a document by DbtMeshConstructor
EditEntry(f, path, id, field, value) ==
  [f EXCEPT ![path] = [i \in 1..Len(f[path]) |->
                         IF f[path][i].id = id
                         THEN [f[path][i] EXCEPT ![field] = value]
                         ELSE f[path][i]]]

\* update_child_refs: the models of the manifest that depend on the resource
downstream_models(id) ==
  SelectSeq(ManifestOrder,
            LAMBDA n : Manifest[n].resource_type = "model" /\ id \in Manifest[n].depends_on)

\* update_model_refs on the children in order, up to the first child whose file
\* is not in the parent project any more
RECURSIVE RewriteRefs(_, _, _, _)
RewriteRefs(f, root, children, id) ==
  IF children = <<>> THEN [status |-> "ok", fs |-> f]
  ELSE LET path == Join(root, Manifest[Head(children)].original_file_path)
       IN  IF path \notin DOMAIN f
           THEN [status |-> "FileNotFoundError", fs |-> f]
           ELSE RewriteRefs([f EXCEPT ![path].rewritten = @ \cup {id}],
                            root, Tail(children), id)

\* ====================================================== the state machine
VARIABLES
  doc,      \* the declaration document on disk (full_yml_dict)
  prev,     \* the document before the last editor call
  last,     \* the last editor call: its arguments and its outcome
  repeated, \* the last call has the arguments of the successful call before it
  nops,     \* number of editor calls so far
  resources,       \* subproject.resources
  custom_macros,   \* subproject.custom_macros
  parent_path,     \* subproject.parent_project.path, file_manager.read_project_path
  target_directory,\* file_manager.write_project_path
  subproject_boundary_models,
  todo,     \* the unique_ids initialize has still to visit
  cur,      \* the unique_id being processed
  pc,       \* position in initialize
  fs,       \* the files on disk, by path
  did,      \* per step of initialize, the resources it has completed for
  io,       \* per path, the read_file and the write_file/delete_file calls
  changes   \* ChangeSet.changes: the Change records of the run

editorVars == <<doc, prev, last, repeated, nops>>

creatorVars ==
  <<resources, custom_macros, parent_path, target_directory,
    subproject_boundary_models, todo, cur, pc, fs, did, io, changes>>

vars == <<editorVars, creatorVars>>

\* no file manager call yet
NoIo == [q \in {} |-> [reads |-> 0, writes |-> 0]]

\* one more read_file(path)
IoRead(f, path) ==
  [q \in (DOMAIN f) \cup {path} |->
     LET old == IF q \in DOMAIN f THEN f[q] ELSE [reads |-> 0, writes |-> 0]
     IN  IF q = path THEN [old EXCEPT !.reads = @ + 1] ELSE old]

\* one more write_file(path, ...) or delete_file(path)
IoWrite(f, path) ==
  [q \in (DOMAIN f) \cup {path} |->
     LET old == IF q \in DOMAIN f THEN f[q] ELSE [reads |-> 0, writes |-> 0]
     IN  IF q = path THEN [old EXCEPT !.writes = @ + 1] ELSE old]

Steps == {"contract", "access", "refs", "move", "move_yml", "copy"}

NoCreator ==
  /\ resources = {}
  /\ custom_macros = {}
  /\ parent_path = <<>>
  /\ target_directory = <<>>
  /\ subproject_boundary_models = {}
  /\ todo = {}
  /\ cur = <<>>
  /\ pc = "none"
  /\ fs = [q \in {} |-> <<>>]
  /\ did = [s \in Steps |-> {}]
  /\ io = NoIo
  /\ changes = {}

\* ------------------------------------------------------------ the inputs
ModelNames == {"m", "n"}

GroupNames == {"finance"}

AccessTypes == {"public", "protected"}

\* Owner.to_dict(): email and name, either of them None
Owners ==
  { [keys |-> <<"email", "name">>, val |-> [name |-> "Ann"]],
    [keys |-> <<"email", "name">>, val |-> [email |-> "ann@corp"]] }

Groups == [name : {"finance", "ops"}, owner : Owners]

DefinedIns == {"", "m_custom"}

CatalogColumns ==
  { [name |-> "id", type |-> "INTEGER"],
    [name |-> "ID", type |-> "Numeric"],
    [name |-> "amt", type |-> "text"] }

RECURSIVE SeqsUpTo(_, _)
SeqsUpTo(S, n) ==
  IF n = 0 THEN {<<>>}
  ELSE LET shorter == SeqsUpTo(S, n - 1)
           longest == {t \in shorter : Len(t) = n - 1}
       IN  shorter \cup
           {Append(t, x) : t \in longest, x \in S}

NamesDistinct(s) == \A i, j \in 1..Len(s) : i # j => s[i].name # s[j].name

\* the table lists its amount column before its key columns
TableOrder(s) == \A i \in 1..Len(s) : s[i].name = "amt" => i = 1

\* model_catalog.columns: a dict, so its keys are distinct; the columns come in
\* the order of the table
Catalogs ==
  {s \in SeqsUpTo(CatalogColumns, MaxCatalogLen) : NamesDistinct(s) /\ TableOrder(s)}

\* documents a project holds before the editors run
EntryPlain ==
  [keys |-> <<"name", "description", "columns">>,
   val  |-> [name |-> "m", columns |-> <<[name |-> "id"]>>]]

EntryUser ==
  [keys |-> <<"docs", "name", "config", "columns">>,
   val  |-> [docs |-> "show", name |-> "m",
             config |-> DictSet(EmptyDict, "materialized", "table"),
             columns |-> <<[name |-> "ID", description |-> "key"], [name |-> "amt"]>>]]

EntrySibling ==
  [keys |-> <<"name", "description">>,
   val  |-> [name |-> "n", description |-> "sibling"]]

\* an entry whose versions were removed by hand, latest_version left behind
EntryStale ==
  [keys |-> <<"name", "latest_version", "versions">>,
   val  |-> [name |-> "m", latest_version |-> 2, versions |-> <<>>]]

GroupOps ==
  [keys |-> <<"name", "owner">>,
   val  |-> [name |-> "ops", owner |-> DictSet(EmptyDict, "name", "Olu")]]

GroupFinance ==
  [keys |-> <<"name", "owner">>,
   val  |-> [name |-> "finance", owner |-> DictSet(EmptyDict, "email", "fin@corp")]]

InitDocs ==
  { EmptyDoc,
    [models |-> <<>>],
    [models |-> <<EntryPlain>>],
    [models |-> <<EntrySibling, EntryUser>>],
    [models |-> <<EntryStale>>],
    [groups |-> <<GroupOps, GroupFinance>>] }

NoCall ==
  [op |-> "none", model_name |-> "", catalog |-> <<>>, group |-> "",
   access_type |-> "", prerelease |-> FALSE, defined_in |-> "",
   owner |-> EmptyDict, status |-> "none"]

Init ==
  /\ doc \in InitDocs
  /\ prev = doc
  /\ last = NoCall
  /\ repeated = FALSE
  /\ nops = 0
  /\ NoCreator

\* one call of an editor on the document file: read, edit, write; a call that
\* raises leaves the file as it was
Call(call, result) ==
  /\ nops < MaxOps
  /\ nops' = nops + 1
  /\ prev' = doc
  /\ doc' = result.doc
  /\ last' = [call EXCEPT !.status = result.status]
  /\ repeated' = ([call EXCEPT !.status = "ok"] = last)
  /\ UNCHANGED creatorVars

AddGroup ==
  \E group \in Groups :
    Call([NoCall EXCEPT !.op = "group", !.group = group.name, !.owner = group.owner],
         add_group_to_yml(group, doc))

AddGroupAndAccess ==
  \E model_name \in ModelNames, group \in GroupNames, access_type \in AccessTypes :
    Call([NoCall EXCEPT !.op = "group_access", !.model_name = model_name,
                        !.group = group, !.access_type = access_type],
         add_group_and_access_to_model_yml(model_name, group, access_type, doc))

AddModelContract ==
  \E model_name \in ModelNames, catalog \in Catalogs :
    Call([NoCall EXCEPT !.op = "contract", !.model_name = model_name,
                        !.catalog = catalog],
         add_model_contract_to_yml(model_name, catalog, doc))

AddModelVersion ==
  \E model_name \in ModelNames, prerelease \in BOOLEAN, defined_in \in DefinedIns :
    Call([NoCall EXCEPT !.op = "version", !.model_name = model_name,
                        !.prerelease = prerelease, !.defined_in = defined_in],
         add_model_version_to_yml(model_name, doc, prerelease, defined_in))

Next ==
  \/ AddGroup
  \/ AddGroupAndAccess
  \/ AddModelContract
  \/ AddModelVersion

Spec == Init /\ [][Next]_vars

\* ------------------------------------------- DbtSubprojectCreator.initialize
NoEditor ==
  /\ doc = EmptyDoc
  /\ prev = EmptyDoc
  /\ last = NoCall
  /\ repeated = FALSE
  /\ nops = 0

SelectableResources == (ManifestIds \ {Cents}) \cup {Ghost}

ParentPaths == {<<>>, <<"proj">>}

TargetDirectories == {<<"sub">>, <<"/", "work", "sub">>}

\* the state after DbtSubprojectCreator.__init__
InitCreator ==
  /\ NoEditor
  /\ resources \in SUBSET SelectableResources
  /\ custom_macros \in SUBSET {Cents}
  /\ Cardinality(resources \cup custom_macros) <= MaxSelected
  /\ parent_path \in ParentPaths
  /\ target_directory \in TargetDirectories
  /\ subproject_boundary_models = _get_subproject_boundary_models(resources)
  /\ todo = resources \cup custom_macros
  /\ cur = <<>>
  /\ pc = "loop"
  /\ fs = ParentTree(parent_path)
  /\ did = [s \in Steps |-> {}]
  /\ io = NoIo
  /\ changes = {}

\* lines 95-117: where initialize goes for one unique_id
Dispatch_NoStamping(unique_id, boundary_models) ==
  IF unique_id \notin ManifestIds THEN "error"
  ELSE LET resource == Manifest[unique_id]
       IN  IF resource.resource_type \in {"model", "test", "snapshot", "seed"}
           THEN IF resource.resource_type = "test" /\ Len(unique_id) = 4
                THEN "loop"
                ELSE "move"
           ELSE IF resource.resource_type = "macro" THEN "copy"
           ELSE "move_yml"

Dispatch_NoSkip(unique_id, boundary_models) ==
  IF unique_id \notin ManifestIds THEN "error"
  ELSE LET resource == Manifest[unique_id]
       IN  IF resource.resource_type \in {"model", "test", "snapshot", "seed"}
           THEN IF unique_id \in boundary_models THEN "contract"
                ELSE "move"
           ELSE IF resource.resource_type = "macro" THEN "copy"
           ELSE "move_yml"

Dispatch_SkipsAllTests(unique_id, boundary_models) ==
  IF unique_id \notin ManifestIds THEN "error"
  ELSE LET resource == Manifest[unique_id]
       IN  IF resource.resource_type \in {"model", "test", "snapshot", "seed"}
           THEN IF resource.resource_type = "test"
                THEN "loop"
                ELSE IF unique_id \in boundary_models THEN "contract"
                ELSE "move"
           ELSE IF resource.resource_type = "macro" THEN "copy"
           ELSE "move_yml"

Dispatch_IgnoresMissing(unique_id, boundary_models) ==
  IF unique_id \notin ManifestIds THEN "loop"
  ELSE LET resource == Manifest[unique_id]
       IN  IF resource.resource_type \in {"model", "test", "snapshot", "seed"}
           THEN IF resource.resource_type = "test" /\ Len(unique_id) = 4
                THEN "loop"
                ELSE IF unique_id \in boundary_models THEN "contract"
                ELSE "move"
           ELSE IF resource.resource_type = "macro" THEN "copy"
           ELSE "move_yml"

Dispatch(unique_id, boundary_models) ==
  \* get_manifest_node returns None: KeyError
  IF unique_id \notin ManifestIds THEN "error"
  ELSE LET resource == Manifest[unique_id]
       IN  IF resource.resource_type \in {"model", "test", "snapshot", "seed"}
           THEN \* ignore generic tests
                IF resource.resource_type = "test" /\ Len(unique_id) = 4
                THEN "loop"
                ELSE IF unique_id \in boundary_models THEN "contract"
                ELSE "move"
           ELSE IF resource.resource_type = "macro" THEN "copy"
           ELSE "move_yml"

Completed(step) == [did EXCEPT ![step] = @ \cup {cur}]

\* the head of the loop over subproject.resources | subproject.custom_macros;
\* a set is visited in no particular order
NextResource ==
  /\ pc = "loop"
  /\ \E unique_id \in todo :
       /\ todo' = todo \ {unique_id}
       /\ cur' = unique_id
       /\ pc' = Dispatch(unique_id, subproject_boundary_models)
  /\ UNCHANGED <<editorVars, changes, resources, custom_macros, parent_path,
                 target_directory, subproject_boundary_models, fs, did, io>>

\* meshify_constructor.add_model_contract(), on the parent project
add_model_contract ==
  /\ pc = "contract"
  /\ fs' = EditEntry(fs, Join(parent_path, Manifest[cur].patch_path), cur, "contract", TRUE)
  /\ did' = Completed("contract")
  \* read_file(yml_path), write_file(yml_path, updated_yml)
  /\ io' = IoWrite(IoRead(io, Join(parent_path, Manifest[cur].patch_path)),
                   Join(parent_path, Manifest[cur].patch_path))
  /\ pc' = "access"
  /\ UNCHANGED <<editorVars, changes, resources, custom_macros, parent_path,
                 target_directory, subproject_boundary_models, todo, cur>>

\* meshify_constructor.add_model_access(access_type=AccessType.Public)
add_model_access ==
  /\ pc = "access"
  /\ fs' = EditEntry(fs, Join(parent_path, Manifest[cur].patch_path), cur, "access", "public")
  /\ did' = Completed("access")
  /\ io' = IoWrite(IoRead(io, Join(parent_path, Manifest[cur].patch_path)),
                   Join(parent_path, Manifest[cur].patch_path))
  /\ pc' = "refs"
  /\ UNCHANGED <<editorVars, changes, resources, custom_macros, parent_path,
                 target_directory, subproject_boundary_models, todo, cur>>

update_child_refs ==
  /\ pc = "refs"
  /\ LET r == RewriteRefs(fs, parent_path, downstream_models(cur), cur)
     IN  /\ fs' = r.fs
         /\ IF r.status = "ok"
            THEN did' = Completed("refs") /\ pc' = "move"
            ELSE did' = did /\ pc' = "error"
  /\ UNCHANGED <<editorVars, changes, resources, custom_macros, parent_path,
                 target_directory, subproject_boundary_models, todo, cur, io>>

\* file_manager.move_file(current_path): from the read root to the write root
move_resource ==
  /\ pc = "move"
  /\ LET current_path == Manifest[cur].original_file_path
         from == Join(parent_path, current_path)
     IN  IF from \in DOMAIN fs
         THEN /\ fs' = FsWrite(FsDelete(fs, from), Join(target_directory, current_path), fs[from])
              /\ did' = Completed("move")
              /\ pc' = "move_yml"
         ELSE /\ pc' = "error"
              /\ UNCHANGED <<fs, did>>
  /\ UNCHANGED <<editorVars, changes, resources, custom_macros, parent_path,
                 target_directory, subproject_boundary_models, todo, cur, io>>

move_resource_yml_entry_NoWriteback ==
  /\ pc = "move_yml"
  /\ LET current_yml_path == Manifest[cur].patch_path
         new_yml_path == Join(target_directory, current_yml_path)
         read_current == Join(parent_path, current_yml_path)
         read_new == Join(parent_path, new_yml_path)
     IN  IF read_current \notin DOMAIN fs
         THEN /\ pc' = "error"
              /\ UNCHANGED <<fs, did, io>>
         ELSE LET split == get_yml_entry(cur, fs[read_current])
                  existing_yml == IF read_new \in DOMAIN fs THEN fs[read_new] ELSE <<>>
                  new_yml_contents == add_entry_to_yml(split.resource_entry, existing_yml)
                  written == FsWrite(fs, Join(target_directory, current_yml_path),
                                     new_yml_contents)
              IN  /\ fs' = written
                  /\ io' = LET afterReads ==
                                 IF read_new \in DOMAIN fs
                                 THEN IoRead(IoRead(io, read_current), read_new)
                                 ELSE IoRead(io, read_current)
                           IN  IoWrite(afterReads,
                                       Join(target_directory, current_yml_path))
                  /\ did' = Completed("move_yml")
                  /\ pc' = "loop"
  /\ UNCHANGED <<editorVars, changes, resources, custom_macros, parent_path,
                 target_directory, subproject_boundary_models, todo, cur>>

move_resource_yml_entry ==
  /\ pc = "move_yml"
  /\ LET current_yml_path == Manifest[cur].patch_path
         new_yml_path == Join(target_directory, current_yml_path)
         \* read_file(p) reads read_project_path / p
         read_current == Join(parent_path, current_yml_path)
         read_new == Join(parent_path, new_yml_path)
     IN  IF read_current \notin DOMAIN fs
         THEN /\ pc' = "error"
              /\ UNCHANGED <<fs, did, io>>
         ELSE LET split == get_yml_entry(cur, fs[read_current])
                  \* except FileNotFoundError: existing_yml = None
                  existing_yml == IF read_new \in DOMAIN fs THEN fs[read_new] ELSE <<>>
                  new_yml_contents == add_entry_to_yml(split.resource_entry, existing_yml)
                  \* write_file(p, c) writes write_project_path / p
                  written == FsWrite(fs, Join(target_directory, current_yml_path),
                                     new_yml_contents)
              IN  /\ fs' = IF split.remainder # <<>>
                           THEN \* writeback=True: read_project_path / p
                                FsWrite(written, read_current, split.remainder)
                           ELSE FsDelete(written, read_current)
                  /\ io' = LET afterReads ==
                                 IF read_new \in DOMAIN fs
                                 THEN IoRead(IoRead(io, read_current), read_new)
                                 ELSE IoRead(io, read_current)
                           IN  IoWrite(IoWrite(afterReads,
                                               Join(target_directory, current_yml_path)),
                                       read_current)
                  /\ did' = Completed("move_yml")
                  /\ pc' = "loop"
  /\ UNCHANGED <<editorVars, changes, resources, custom_macros, parent_path,
                 target_directory, subproject_boundary_models, todo, cur>>

copy_resource_Moves ==
  /\ pc = "copy"
  /\ LET resource_path == Manifest[cur].original_file_path
         from == Join(parent_path, resource_path)
     IN  IF from \in DOMAIN fs
         THEN /\ fs' = FsWrite(FsDelete(fs, from), Join(target_directory, resource_path),
                               fs[from])
              /\ io' = io
              /\ did' = Completed("copy")
              /\ pc' = "loop"
         ELSE /\ pc' = "error"
              /\ UNCHANGED <<fs, did, io>>
  /\ UNCHANGED <<editorVars, changes, resources, custom_macros, parent_path,
                 target_directory, subproject_boundary_models, todo, cur>>

copy_resource ==
  /\ pc = "copy"
  /\ LET resource_path == Manifest[cur].original_file_path
         from == Join(parent_path, resource_path)
     IN  IF from \in DOMAIN fs
         THEN /\ fs' = FsWrite(fs, Join(target_directory, resource_path), fs[from])
              /\ io' = IoWrite(IoRead(io, from), Join(target_directory, resource_path))
              /\ did' = Completed("copy")
              /\ pc' = "loop"
         ELSE /\ pc' = "error"
              /\ UNCHANGED <<fs, did, io>>
  /\ UNCHANGED <<editorVars, changes, resources, custom_macros, parent_path,
                 target_directory, subproject_boundary_models, todo, cur>>

\* after the loop
write_project_file ==
  /\ pc = "loop"
  /\ todo = {}
  /\ fs' = FsWrite(fs, Join(target_directory, <<"dbt_project.yml">>),
                   [name |-> SubprojectName])
  /\ io' = IoWrite(io, Join(target_directory, <<"dbt_project.yml">>))
  /\ pc' = "packages"
  /\ UNCHANGED <<editorVars, changes, resources, custom_macros, parent_path,
                 target_directory, subproject_boundary_models, todo, cur, did>>

copy_packages_yml_file ==
  /\ pc = "packages"
  /\ fs' = FsWrite(fs, Join(target_directory, <<"packages.yml">>),
                   fs[Join(parent_path, <<"packages.yml">>)])
  /\ pc' = "done"
  /\ UNCHANGED <<editorVars, changes, resources, custom_macros, parent_path,
                 target_directory, subproject_boundary_models, todo, cur, did, io>>

NextCreator ==
  \/ NextResource
  \/ add_model_contract
  \/ add_model_access
  \/ update_child_refs
  \/ move_resource
  \/ move_resource_yml_entry
  \/ copy_resource
  \/ write_project_file
  \/ copy_packages_yml_file

SpecCreator == InitCreator /\ [][NextCreator]_vars

\* ============================================= properties of the editors
HasEntry(d, n) ==
  /\ "models" \in DOMAIN d
  /\ \E i \in 1..Len(d["models"]) : d["models"][i].val["name"] = n

EntryOf(d, n) ==
  d["models"][CHOOSE i \in 1..Len(d["models"]) : d["models"][i].val["name"] = n]

VersionsIn(d, n) ==
  IF HasEntry(d, n) /\ HasValue(EntryOf(d, n), "versions")
  THEN EntryOf(d, n).val["versions"] ELSE <<>>

HasLatestIn(d, n) == HasEntry(d, n) /\ HasValue(EntryOf(d, n), "latest_version")

ColumnsIn(d, n) ==
  IF HasEntry(d, n) /\ HasValue(EntryOf(d, n), "columns")
  THEN EntryOf(d, n).val["columns"] ELSE <<>>

VersionNumbers(vs) == [i \in 1..Len(vs) |-> vs[i]["v"]]

VersionCallDone == last.op = "version" /\ last.status = "ok"

\* C1: on an entry without versions and without latest_version the first
\* add_model_version_to_yml call yields versions = [{v:1}] and latest_version
\* = 1; on an entry with versions a non-prerelease call appends
\* {v: latest_version+1} and increments latest_version, a prerelease call
\* appends {v: latest_version+1} and leaves latest_version unchanged; three
\* calls, the last a prerelease after a non-prerelease, give versions 1,2,3
\* and latest_version 2.
C1_VersionSequence ==
  VersionCallDone =>
    LET n   == last.model_name
        vs0 == VersionsIn(prev, n)
        vs1 == VersionsIn(doc, n)
        e1  == EntryOf(doc, n)
    IN  /\ HasEntry(doc, n)
        /\ (vs0 = <<>> /\ ~HasLatestIn(prev, n)) =>
              /\ VersionNumbers(vs1) = <<1>>
              /\ e1.val["latest_version"] = 1
        /\ (vs0 # <<>> /\ HasLatestIn(prev, n)) =>
              LET l0 == EntryOf(prev, n).val["latest_version"]
              IN  /\ Len(vs1) = Len(vs0) + 1
                  /\ SubSeq(vs1, 1, Len(vs0)) = vs0
                  /\ vs1[Len(vs1)]["v"] = l0 + 1
                  /\ e1.val["latest_version"] = IF last.prerelease THEN l0 ELSE l0 + 1
        /\ (/\ Len(vs1) = 3
            /\ last.prerelease
            /\ HasLatestIn(prev, n)
            /\ EntryOf(prev, n).val["latest_version"] = 2) =>
              /\ VersionNumbers(vs1) = <<1, 2, 3>>
              /\ e1.val["latest_version"] = 2

\* three calls on a version-less entry, non-prerelease twice then prerelease
C1_Witness ==
  /\ VersionCallDone
  /\ last.prerelease
  /\ nops = 3
  /\ VersionNumbers(VersionsIn(doc, last.model_name)) = <<1, 2, 3>>
  /\ EntryOf(doc, last.model_name).val["latest_version"] = 2
  /\ EntryOf(prev, last.model_name).val["latest_version"] = 2

ContractCallOnEntry ==
  /\ last.op = "contract"
  /\ HasEntry(prev, last.model_name)
  /\ \A i \in 1..Len(ColumnsIn(prev, last.model_name)) :
       \E j \in 1..Len(last.catalog) :
         last.catalog[j].name = ColumnsIn(prev, last.model_name)[i]["name"]

ObservedType(catalog, n) ==
  (CHOOSE c \in Range(catalog) : c.name = n).type

\* the declared columns come first, in their order, each with the lower-cased
\* observed type, and the contract is enforced
DeclaredColumnsStamped ==
  LET n        == last.model_name
      declared == ColumnsIn(prev, n)
      cols     == ColumnsIn(doc, n)
      e1       == EntryOf(doc, n)
  IN  /\ last.status = "ok"
      /\ HasEntry(doc, n)
      /\ Len(cols) >= Len(declared)
      /\ \A i \in 1..Len(declared) :
           /\ DOMAIN cols[i] = (DOMAIN declared[i]) \cup {"data_type"}
           /\ \A k \in (DOMAIN declared[i]) \ {"data_type"} : cols[i][k] = declared[i][k]
           /\ cols[i]["data_type"] = Lower(ObservedType(last.catalog, declared[i]["name"]))
      /\ HasValue(e1, "config")
      /\ HasValue(e1.val["config"], "contract")
      /\ e1.val["config"].val["contract"] = [enforced |-> TRUE]

\* the columns after the declared ones are the given observed columns, in order
AppendedColumnsAre(undeclared) ==
  LET n     == last.model_name
      k     == Len(ColumnsIn(prev, n))
      cols  == ColumnsIn(doc, n)
  IN  /\ Len(cols) = k + Len(undeclared)
      /\ \A i \in 1..Len(undeclared) :
           /\ Lower(cols[k + i]["name"]) = Lower(undeclared[i].name)
           /\ cols[k + i]["data_type"] = Lower(undeclared[i].type)

\* C2 (as claimed): after add_model_contract_to_yml on an entry whose declared
\* columns all have a same-named observed column, the columns are the declared
\* ones in order with the lower-cased observed type, followed by the observed
\* columns whose name is not a declared name, in observation order, and the
\* contract is enforced.
C2_AsClaimed ==
  ContractCallOnEntry =>
    LET declaredNames == {ColumnsIn(prev, last.model_name)[i]["name"] :
                            i \in 1..Len(ColumnsIn(prev, last.model_name))}
    IN  /\ DeclaredColumnsStamped
        /\ AppendedColumnsAre(SelectSeq(last.catalog,
                                LAMBDA c : c.name \notin declaredNames))

\* C2 (amended): as claimed, but the appended columns are the observed columns
\* whose lower-cased name is not the lower-cased name of a declared column,
\* each appended under its lower-cased name.
C2_ContractColumns ==
  ContractCallOnEntry =>
    LET n == last.model_name
        k == Len(ColumnsIn(prev, n))
        declaredLower == {Lower(ColumnsIn(prev, n)[i]["name"]) : i \in 1..k}
        undeclared == SelectSeq(last.catalog, LAMBDA c : Lower(c.name) \notin declaredLower)
    IN  /\ DeclaredColumnsStamped
        /\ AppendedColumnsAre(undeclared)
        /\ \A i \in 1..Len(undeclared) :
             ColumnsIn(doc, n)[k + i]["name"] = Lower(undeclared[i].name)

\* a declared column was stamped, an observed column was appended, and an
\* observed column differing from a declared one only in case was not
C2_Witness ==
  /\ ContractCallOnEntry
  /\ last.status = "ok"
  /\ Len(ColumnsIn(prev, last.model_name)) = 1
  /\ Len(last.catalog) = 2
  /\ \E j \in 1..2 : /\ last.catalog[j].name # ColumnsIn(prev, last.model_name)[1]["name"]
                     /\ Lower(last.catalog[j].name) =
                          Lower(ColumnsIn(prev, last.model_name)[1]["name"])
  /\ Len(ColumnsIn(doc, last.model_name)) = 1

ColumnNamesDistinct(cols) ==
  \A i, j \in 1..Len(cols) : i # j => cols[i]["name"] # cols[j]["name"]

\* C3: add_model_contract_to_yml applied a second time with the same observed
\* columns succeeds and leaves the document as the first application left
\* it, and after any application no two columns of the entry share a name.
C3_ContractIdempotent ==
  /\ (repeated /\ last.op = "contract") => (last.status = "ok" /\ doc = prev)
  /\ (last.op = "contract" /\ last.status = "ok") =>
        ColumnNamesDistinct(ColumnsIn(doc, last.model_name))

\* C9: add_group_and_access_to_model_yml on an empty document yields an entry
\* holding exactly name, access and config (the non-null fields of the patch)
\* in canonical order, and a repeated call leaves the document unchanged.
C9_RoundTrip ==
  /\ (last.op = "group_access" /\ last.status = "ok" /\ prev = EmptyDoc) =>
        /\ Len(doc["models"]) = 1
        /\ doc["models"][1].keys = <<"name", "access", "config">>
        /\ doc["models"][1].val["name"] = last.model_name
        /\ doc["models"][1].val["access"] = last.access_type
        /\ doc["models"][1].val["config"] = DictSet(EmptyDict, "group", last.group)
  /\ (repeated /\ last.op = "group_access") => (last.status = "ok" /\ doc = prev)

IsEmptyIn(e, k, empty) == HasValue(e, k) /\ e.val[k] = empty

\* C10: after a successful group/access stamping, contract stamping or version
\* append the written entry has no field that is null, an empty mapping or an
\* empty sequence.
C10_NoEmptyFields ==
  (last.op \in {"group_access", "contract", "version"} /\ last.status = "ok") =>
    LET e == EntryOf(doc, last.model_name)
    IN  /\ \A i \in 1..Len(e.keys) : HasValue(e, e.keys[i])
        /\ ~IsEmptyIn(e, "columns", <<>>)
        /\ ~IsEmptyIn(e, "versions", <<>>)
        /\ ~IsEmptyIn(e, "config", EmptyDict)
        /\ ~IsEmptyIn(e, "meta", EmptyDict)

\* C11: add_model_version_to_yml on an entry whose versions are empty or
\* absent, whatever latest_version the entry stores, yields versions = [{v:1}]
\* (with defined_in when given) and latest_version = 1.
C11_FirstVersionResets ==
  (VersionCallDone /\ VersionsIn(prev, last.model_name) = <<>>) =>
    /\ VersionsIn(doc, last.model_name) = <<VersionDict(1, last.defined_in)>>
    /\ EntryOf(doc, last.model_name).val["latest_version"] = 1

GroupsIn(d) == IF "groups" \in DOMAIN d THEN d["groups"] ELSE <<>>

OtherGroups(d, n) == SelectSeq(GroupsIn(d), LAMBDA g : g.val["name"] # n)

GroupCallDone == last.op = "group" /\ last.status = "ok"

\* the owner of the group named n in d, an empty dict when there is none
OwnerIn(d, n) ==
  LET named == SelectSeq(GroupsIn(d), LAMBDA g : g.val["name"] = n)
  IN  IF named # <<>> /\ HasValue(named[1], "owner")
      THEN named[1].val["owner"] ELSE EmptyDict

\* C16: the groups list never holds two entries of one name; after
\* add_group_to_yml the list holds the group once, with the non-null owner
\* fields of the call and with the owner fields it had before that the call
\* leaves null; the groups of other names are as before, in the same order;
\* a call that repeats the call before it leaves the document as it was.
C16_GroupUpsert ==
  /\ \A i, j \in 1..Len(GroupsIn(doc)) :
       i # j => GroupsIn(doc)[i].val["name"] # GroupsIn(doc)[j].val["name"]
  /\ GroupCallDone =>
       LET n      == last.group
           owner0 == OwnerIn(prev, n)
           owner1 == OwnerIn(doc, n)
       IN  /\ Len(SelectSeq(GroupsIn(doc), LAMBDA g : g.val["name"] = n)) = 1
           /\ OtherGroups(doc, n) = OtherGroups(prev, n)
           /\ \A k \in DOMAIN last.owner.val :
                HasValue(owner1, k) /\ owner1.val[k] = last.owner.val[k]
           /\ \A k \in (DOMAIN owner0.val) \ (DOMAIN last.owner.val) :
                HasValue(owner1, k) /\ owner1.val[k] = owner0.val[k]
           /\ \A k \in (DOMAIN prev) \ {"groups"} : k \in DOMAIN doc /\ doc[k] = prev[k]
           /\ repeated => doc = prev

\* the group was listed after another one, with an owner field the call
\* leaves null
C16_Witness ==
  /\ GroupCallDone
  /\ OtherGroups(prev, last.group) # <<>>
  /\ (DOMAIN OwnerIn(prev, last.group).val) \ (DOMAIN last.owner.val) # {}
  /\ "models" \in DOMAIN doc

\* C18: whatever add_model_version_to_yml calls were made on an entry that
\* started without versions, the version numbers of the entry are strictly
\* increasing along its versions list, hence pairwise distinct.
C18_VersionsIncrease ==
  \A n \in ModelNames :
    LET vs == VersionNumbers(VersionsIn(doc, n))
    IN  \A i, j \in 1..Len(vs) : i < j => vs[i] < vs[j]

\* C19: on a document without an entry of the requested name (an empty
\* document, one with other sections and no models list, a models list
\* without the name) add_group_and_access_to_model_yml,
\* add_model_contract_to_yml and add_model_version_to_yml succeed and leave
\* exactly one entry of that name.
C19_SeedsAbsentEntry ==
  (last.op \in {"group_access", "contract", "version"} /\ ~HasEntry(prev, last.model_name)) =>
    /\ last.status = "ok"
    /\ "models" \in DOMAIN doc
    /\ Len(SelectSeq(doc["models"], LAMBDA e : e.val["name"] = last.model_name)) = 1

ModelsIn(d) == IF "models" \in DOMAIN d THEN d["models"] ELSE <<>>

OtherModels(d, n) == SelectSeq(ModelsIn(d), LAMBDA e : e.val["name"] # n)

\* C20: a successful add_group_and_access_to_model_yml,
\* add_model_contract_to_yml or add_model_version_to_yml leaves every entry of
\* another name as it was, the entries that were there in their positions, a
\* seeded entry after them, the entry names distinct and the other sections
\* of the document unchanged.
C20_SiblingsUntouched ==
  (last.op \in {"group_access", "contract", "version"} /\ last.status = "ok") =>
    LET n  == last.model_name
        m0 == ModelsIn(prev)
        m1 == ModelsIn(doc)
    IN  /\ OtherModels(doc, n) = OtherModels(prev, n)
        /\ HasEntry(prev, n) =>
             /\ Len(m1) = Len(m0)
             /\ \A i \in 1..Len(m0) : m1[i].val["name"] = m0[i].val["name"]
        /\ ~HasEntry(prev, n) =>
             /\ Len(m1) = Len(m0) + 1
             /\ SubSeq(m1, 1, Len(m0)) = m0
             /\ m1[Len(m1)].val["name"] = n
        /\ \A i, j \in 1..Len(m1) : i # j => m1[i].val["name"] # m1[j].val["name"]
        /\ \A k \in (DOMAIN prev) \ {"models"} : k \in DOMAIN doc /\ doc[k] = prev[k]

\* an entry was seeded after a sibling that holds user-authored fields
C20_Witness ==
  /\ last.op \in {"group_access", "contract", "version"}
  /\ last.status = "ok"
  /\ ~HasEntry(prev, last.model_name)
  /\ ModelsIn(prev) # <<>>
  /\ ModelsIn(prev)[1].keys # process_model_yml(ModelsIn(prev)[1]).keys
  /\ Len(ModelsIn(doc)) = Len(ModelsIn(prev)) + 1

\* the config block of the entry named n in d, an empty dict when there is none
ConfigIn(d, n) ==
  IF HasEntry(d, n) /\ HasValue(EntryOf(d, n), "config")
  THEN EntryOf(d, n).val["config"] ELSE EmptyDict

\* C21: add_group_and_access_to_model_yml and add_model_contract_to_yml
\* compose in either order: the second of them to succeed on an entry leaves
\* the access field set, config.group with the name of the group and
\* config.contract enforced, and neither of them removes or changes a config
\* key that the other or the user wrote.
C21_StampingComposes ==
  (last.op \in {"group_access", "contract"} /\ last.status = "ok") =>
    LET n       == last.model_name
        config0 == ConfigIn(prev, n)
        config1 == ConfigIn(doc, n)
    IN  /\ \A k \in DOMAIN config0.val :
             /\ HasValue(config1, k)
             /\ k \notin {"group", "contract"} => config1.val[k] = config0.val[k]
        /\ (last.op = "contract" /\ HasValue(config0, "group")) =>
             /\ HasValue(EntryOf(doc, n), "access")
             /\ EntryOf(doc, n).val["access"] = EntryOf(prev, n).val["access"]
             /\ config1.val["group"] = config0.val["group"]
             /\ HasValue(config1, "contract")
             /\ config1.val["contract"] = [enforced |-> TRUE]
        /\ (last.op = "group_access" /\ HasValue(config0, "contract")) =>
             /\ EntryOf(doc, n).val["access"] = last.access_type
             /\ config1.val["group"] = last.group
             /\ config1.val["contract"] = [enforced |-> TRUE]

\* =============================================== properties of initialize
EntryIds(path) ==
  IF path \in DOMAIN fs THEN [i \in 1..Len(fs[path]) |-> fs[path][i].id] ELSE <<>>

NoRepeats(ids) == \A i, j \in 1..Len(ids) : i # j => ids[i] # ids[j]

\* C4: at the end of a run, for every declaration document with entries E of
\* which the entries M were relocated by move_resource_yml_entry, the document
\* in the target project holds exactly M, the document at the original path
\* holds exactly E minus M, and no entry is in both or in neither.
C4_SplitRemainder ==
  pc = "done" =>
    \A pp \in PatchPaths :
      LET E == Range(EntriesAt(pp))
          M == E \cap did["move_yml"]
          moved == EntryIds(Join(target_directory, pp))
          remainder == EntryIds(Join(parent_path, pp))
      IN  /\ Range(moved) = M
          /\ Range(remainder) = E \ M
          /\ NoRepeats(moved)
          /\ NoRepeats(remainder)

AncestorClosed(selection) ==
  \A e \in Graph : e[2] \in selection => e[1] \in selection

\* the selected models of the parent project with a dependent outside
ExposedModels ==
  {r \in resources \cap ManifestIds :
     /\ Manifest[r].resource_type = "model"
     /\ r[2] = ParentProjectName
     /\ \E e \in Graph : e[1] = r /\ e[2] \notin resources}

\* C5: for a selection closed under ancestors, the resources that receive the
\* contract and access mutation are exactly the selected models of the parent
\* project that have a dependent outside the selection.
C5_BoundaryCorrect ==
  (pc # "none" /\ AncestorClosed(resources)) =>
    /\ subproject_boundary_models = ExposedModels
    /\ did["contract"] \subseteq ExposedModels
    /\ did["access"] \subseteq ExposedModels
    /\ pc = "done" => (did["contract"] = ExposedModels /\ did["access"] = ExposedModels)

\* C6: a resource of the boundary set has its contract stamped, its access
\* made public and its downstream references rewritten before its file is
\* moved and before its declaration entry is moved.
C6_StampBeforeMove ==
  \A id \in subproject_boundary_models :
    (\/ id \in did["move"]
     \/ id \in did["move_yml"]
     \/ (cur = id /\ pc \in {"move", "move_yml"})) =>
       (id \in did["contract"] /\ id \in did["access"] /\ id \in did["refs"])

\* a boundary model with a downstream model has been moved, file and entry
C6_Witness ==
  \E id \in subproject_boundary_models :
    /\ id \in did["move"]
    /\ id \in did["move_yml"]
    /\ downstream_models(id) # <<>>
    /\ id \in did["refs"]

IsTest(id) == id \in ManifestIds /\ Manifest[id].resource_type = "test"

\* C7: a test whose identifier has four segments triggers no file move, no
\* entry move, no contract or access mutation and no reference rewrite; after
\* it the loop goes on.
C7_GenericTestSkipped ==
  \A id \in resources :
    (IsTest(id) /\ Len(id) = 4) =>
      /\ \A step \in Steps : id \notin did[step]
      /\ cur = id => pc \in {"loop", "packages", "done"}

\* a generic test was visited in a run that relocated its model
C7_Witness ==
  /\ pc = "done"
  /\ GenericTest \in resources
  /\ Orders \in did["move_yml"]
  /\ Orders \in did["move"]

\* C8 (as claimed): a test that is not a generic test triggers no file move
\* and no declaration-entry move of its own.
C8_AsClaimed ==
  \A id \in resources :
    (IsTest(id) /\ Len(id) # 4) => (id \notin did["move"] /\ id \notin did["move_yml"])

\* C8 (amended): a test that is not a generic test is not skipped: a run that
\* completes has moved its file and its declaration entry; it never triggers
\* a contract or access mutation, a reference rewrite or a copy.
C8_SingularTestMoved ==
  \A id \in resources :
    (IsTest(id) /\ Len(id) # 4) =>
      /\ pc = "done" => (id \in did["move"] /\ id \in did["move_yml"])
      /\ \A step \in {"contract", "access", "refs", "copy"} : id \notin did[step]

\* a run relocated a model and its singular test
C8_Witness ==
  /\ pc = "done"
  /\ SingularTest \in did["move"]
  /\ SingularTest \in did["move_yml"]
  /\ Orders \in did["move"]

\* the loop has reached a unique_id the manifest does not hold
Unresolved == cur # <<>> /\ cur \notin ManifestIds

AbortedCleanly ==
  Unresolved =>
    /\ pc = "error"
    /\ Join(target_directory, <<"dbt_project.yml">>) \notin DOMAIN fs
    /\ Join(target_directory, <<"packages.yml">>) \notin DOMAIN fs
    /\ \A s \in Steps : did[s] \cap (todo \cup {cur}) = {}
    /\ \A id \in did["move"] :
         /\ Join(target_directory, Manifest[id].original_file_path) \in DOMAIN fs
         /\ Join(parent_path, Manifest[id].original_file_path) \notin DOMAIN fs
    /\ \A id \in did["copy"] :
         Join(target_directory, Manifest[id].original_file_path) \in DOMAIN fs

\* C12: when initialize meets a unique_id without a manifest node the run
\* stops in error: from then on no file changes and no step runs, the
\* resources not yet visited are neither moved nor copied, dbt_project.yml and
\* packages.yml of the subproject are never written, and what was moved or
\* copied before stays where it was put.
C12_FatalAbort ==
  /\ []AbortedCleanly
  /\ [][Unresolved => UNCHANGED <<fs, did, pc, io>>]_vars

\* the abort comes after another resource was moved and before the rest
C12_Witness ==
  /\ Unresolved
  /\ pc = "error"
  /\ did["move_yml"] # {}
  /\ todo # {}

\* the selected resources declared in the document at patch_path
SharedBy(patch_path) ==
  {id \in (resources \cup custom_macros) \cap ManifestIds :
     Manifest[id].patch_path = patch_path}

Reads(path) == IF path \in DOMAIN io THEN io[path].reads ELSE 0

Writes(path) == IF path \in DOMAIN io THEN io[path].writes ELSE 0

\* the stamping and entry-move calls completed on the document at patch_path
CallsOn(patch_path) ==
  Cardinality({id \in did["contract"] : Manifest[id].patch_path = patch_path})
  + Cardinality({id \in did["access"] : Manifest[id].patch_path = patch_path})
  + Cardinality({id \in did["move_yml"] : Manifest[id].patch_path = patch_path})

\* C13 (as claimed): a declaration document of the parent project that
\* several selected resources share is read at most once and written at most
\* once in the run.
C13_AsClaimed ==
  \A patch_path \in PatchPaths :
    Cardinality(SharedBy(patch_path)) >= 2 =>
      /\ Reads(Join(parent_path, patch_path)) <= 1
      /\ Writes(Join(parent_path, patch_path)) <= 1

\* C13 (amended): every contract stamping, access stamping and entry move
\* reads the resource's declaration document from disk once and writes (or
\* deletes) it once, so a document is read and written as many times as such
\* calls have completed on it.
C13_ReadWritePerCall ==
  \A patch_path \in PatchPaths :
    /\ Reads(Join(parent_path, patch_path)) = CallsOn(patch_path)
    /\ Writes(Join(parent_path, patch_path)) = CallsOn(patch_path)

\* a finished run in which two selected resources shared a document
C13_Witness ==
  /\ pc = "done"
  /\ \E patch_path \in PatchPaths :
       /\ Cardinality(SharedBy(patch_path)) >= 2
       /\ Reads(Join(parent_path, patch_path)) >= 2
       /\ Writes(Join(parent_path, patch_path)) >= 2

IsMacro(id) == id \in ManifestIds /\ Manifest[id].resource_type = "macro"

\* initialize has finished with the macro
MacroProcessed(id) ==
  /\ IsMacro(id)
  /\ id \in (resources \cup custom_macros) \ todo
  /\ id = cur => pc \notin {"copy", "error"}

MacroCopied ==
  \A id \in ManifestIds :
    /\ MacroProcessed(id) =>
         /\ id \in did["copy"]
         /\ Join(target_directory, Manifest[id].original_file_path) \in DOMAIN fs
         /\ fs[Join(target_directory, Manifest[id].original_file_path)] = CodeFile(id)
    /\ IsMacro(id) =>
         /\ Join(parent_path, Manifest[id].original_file_path) \in DOMAIN fs
         /\ fs[Join(parent_path, Manifest[id].original_file_path)] = CodeFile(id)
         /\ \A s \in Steps \ {"copy"} : id \notin did[s]

\* C14: a macro that initialize has processed has its file in the target
\* project with the content it has in the parent project, where it stays
\* unchanged; the step that processes it deletes no file and changes no other
\* file, and no contract, access, reference, move or entry-move step is ever
\* completed for a macro.
C14_MacroCopiedNotMoved ==
  /\ []MacroCopied
  /\ [][pc = "copy" =>
          \A q \in DOMAIN fs :
            /\ q \in DOMAIN fs'
            /\ q # Join(target_directory, Manifest[cur].original_file_path)
                 => fs'[q] = fs[q]]_vars

\* the run is over and has copied the macro
C14_Witness ==
  /\ pc = "done"
  /\ Cents \in did["copy"]
  /\ did["move"] # {}

\* the document mutations the run has performed: one per completed contract
\* stamping, access stamping and reference rewrite, two per completed entry
\* move (the entry into the target document, the remainder written or the
\* emptied document deleted)
DocumentMutations ==
  Cardinality(did["contract"]) + Cardinality(did["access"])
  + Cardinality(did["refs"]) + 2 * Cardinality(did["move_yml"])

\* C15: every step of initialize that mutates a document records one Change,
\* so the ChangeSet holds as many Changes as document mutations were
\* performed.
C15_OneChangePerMutation == Cardinality(changes) = DocumentMutations

\* C17: for every selection, each member of the boundary set is a selected
\* resource that a resource outside the selection depends on; a selected model
\* without a dependent outside the selection is not in the boundary set.
C17_BoundaryHasOutsideDependent ==
  pc # "none" =>
    \A id \in subproject_boundary_models :
      /\ id \in resources
      /\ \E e \in Graph : e[1] = id /\ e[2] \notin resources

====
